---- MODULE Spec2Model ----
(***************************************************************************)
(* Conversation lifecycle of the debt recovery agent: the per-message      *)
(* turn (ConversationService.process_message), identity verification,      *)
(* escalation, opt-out and debt-validation handling, the contact           *)
(* compliance gate and the response validator.                             *)
(*                                                                         *)
(* Money is counted in cents.  A calendar date is a record [y, m, d].      *)
(* The model covers the requests of one calendar day (today): the          *)
(* conversations the borrower opened earlier are present only as the       *)
(* rows the frequency checks count.                                        *)
(***************************************************************************)
EXTENDS Integers, Sequences, FiniteSets, TLC

VARIABLES
    today,       \* the current calendar date (datetime.now().date())
    history,     \* [today, week]: Conversation rows of the borrower created before the run
    borrower,    \* the Borrower row: [opt_out_date_set]
    loan,        \* the Loan row: [current_balance, last_payment_amount]
    convs,       \* the Conversation rows, keyed by conversation_id
    msgs,        \* the Message rows of each conversation, in insertion order
    plans,       \* the PaymentPlan rows with their ScheduledPayment rows
    result,      \* what the last request returned to its caller
    failStreak,  \* history: per conversation, verify_identity calls since the last success
    everOptedOut, \* history: the conversations an opt-out request has marked opted out
    transactions, \* the Transaction rows of the loan, in insertion order
    inflight     \* the requests the server has accepted and not yet answered

vars ==
    <<today, history, borrower, loan, convs, msgs, plans, result, failStreak,
      everOptedOut, transactions, inflight>>

----------------------------------------------------------------------------
(* Bounds of the model *)

MaxTurns == 2
MaxPlans == 1
MaxPriorToday == 3
MaxPriorWeek == 7

(* Configuration of the program *)

max_verification_attempts == 3
max_daily_contact_attempts == 3
max_weekly_contact_attempts == 7
max_installment_months == 12
max_settlement_percent == 70
minimum_installment_cents == 2500
contact_hours_start == 480
contact_hours_end == 1260
prohibited_days == {6}

ConvIds == {"s1", "s2"}
Sessions == {"s1"}
KnownLoan == 1
UnknownLoan == 5
KnownBorrower == 1
UnknownBorrower == 5
StoredSSN == "1234"

ConversationStates ==
    {"initiated", "identity_verification", "active_negotiation",
     "payment_processing", "escalated", "closed", "opted_out"}

ActionTypes ==
    {"inform", "collect_payment", "propose_plan", "acknowledge",
     "request_info", "escalate", "close", "verify_identity"}

----------------------------------------------------------------------------
(* Calendar arithmetic: datetime.replace, timedelta, weekday *)

IsLeap(y) == (y % 4 = 0 /\ y % 100 # 0) \/ y % 400 = 0

DaysInMonth(y, m) ==
    IF m = 2 THEN (IF IsLeap(y) THEN 29 ELSE 28)
    ELSE IF m \in {4, 6, 9, 11} THEN 30 ELSE 31

NextDay(dt) ==
    IF dt.d < DaysInMonth(dt.y, dt.m) THEN [dt EXCEPT !.d = dt.d + 1]
    ELSE IF dt.m < 12 THEN [y |-> dt.y, m |-> dt.m + 1, d |-> 1]
    ELSE [y |-> dt.y + 1, m |-> 1, d |-> 1]

RECURSIVE AddDays(_, _)
AddDays(dt, n) == IF n = 0 THEN dt ELSE AddDays(NextDay(dt), n - 1)

\* Days from 1 January of year y to the first of month m of the same year.
RECURSIVE DaysBeforeMonth(_, _)
DaysBeforeMonth(y, m) ==
    IF m = 1 THEN 0 ELSE DaysBeforeMonth(y, m - 1) + DaysInMonth(y, m - 1)

\* Days from 1 January 2024 (a Monday) to 1 January of year y >= 2024.
RECURSIVE DaysBeforeYear(_)
DaysBeforeYear(y) ==
    IF y = 2024 THEN 0
    ELSE DaysBeforeYear(y - 1) + (IF IsLeap(y - 1) THEN 366 ELSE 365)

\* datetime.weekday(): Monday is 0, Sunday is 6.
Weekday(dt) == (DaysBeforeYear(dt.y) + DaysBeforeMonth(dt.y, dt.m) + dt.d - 1) % 7

----------------------------------------------------------------------------
(* Rows and return values *)

NoReason == "none"
Absent == "<absent>"

NewConversation ==
    [state |-> "initiated", identity_verified |-> FALSE,
     verification_attempts |-> 0, escalation_reason |-> NoReason,
     escalation_date_set |-> FALSE]

\* The assistant field of a result that carries no AssistantResponse.
NoResponse ==
    [action |-> "none", message_to_user |-> <<>>,
     structured_plan |-> [type |-> "none", amount |-> 0, installments |-> 0,
                          first_due_date |-> [y |-> 0, m |-> 0, d |-> 0],
                          frequency |-> "monthly"],
     confidence |-> 0, escalation |-> FALSE, compliance_checks |-> <<>>,
     metadata |-> <<>>]

NoResult ==
    [op |-> "none", conv |-> "none", status |-> "none", verified |-> FALSE,
     attempts_remaining |-> 0, action |-> "none", escalation |-> FALSE,
     reason |-> NoReason, assistant |-> NoResponse]

Min(a, b) == IF a < b THEN a ELSE b
Abs(x) == IF x < 0 THEN 0 - x ELSE x

----------------------------------------------------------------------------
(* ComplianceService: the contact compliance gate *)

\* Variant of the opt-out check that ignores opt_out_date; the gate then lets
\* an opted-out borrower through.
CheckOptOutStatus_AlwaysPasses(b) ==
    [check_name |-> "opt_out_status", passed |-> TRUE,
     details |-> "Borrower has not opted out", severity |-> "info"]

CheckOptOutStatus(b) ==
    IF b.opt_out_date_set
    THEN [check_name |-> "opt_out_status", passed |-> FALSE,
          details |-> "Borrower opted out", severity |-> "critical"]
    ELSE [check_name |-> "opt_out_status", passed |-> TRUE,
          details |-> "Borrower has not opted out", severity |-> "info"]

\* A clock is datetime.now().time(): minute is its minute of the day, past
\* tells that seconds or microseconds have passed since that minute began.
\* The window bounds are whole minutes.
\* start_time <= current_time
NotBefore(clock, minutes) == minutes <= clock.minute

\* current_time <= end_time
NotAfter(clock, minutes) ==
    \/ clock.minute < minutes
    \/ clock.minute = minutes /\ ~clock.past

Exactly(m) == [minute |-> m, past |-> FALSE]
Within(m) == [minute |-> m, past |-> TRUE]

CheckContactTime(day, clock) ==
    IF Weekday(day) \in prohibited_days
    THEN [check_name |-> "contact_time", passed |-> FALSE,
          details |-> "Contact not allowed on Sundays", severity |-> "warning"]
    ELSE IF ~(NotBefore(clock, contact_hours_start)
                 /\ NotAfter(clock, contact_hours_end))
    THEN [check_name |-> "contact_time", passed |-> FALSE,
          details |-> "Contact only allowed between 08:00 and 21:00",
          severity |-> "warning"]
    ELSE [check_name |-> "contact_time", passed |-> TRUE,
          details |-> "Contact time is within allowed hours", severity |-> "info"]

\* time.fromisoformat on the configuration texts of the model: the minute of
\* the day, or ValueError.
FromIsoFormat(s) ==
    CASE s = "08:00" -> [ok |-> TRUE, minutes |-> 480]
      [] s = "21:00" -> [ok |-> TRUE, minutes |-> 1260]
      [] OTHER       -> [ok |-> FALSE, minutes |-> 0]

WindowTexts == {"08:00", "21:00", "8am", "25:00"}

\* Variant of _check_contact_time whose except branch returns a failed check.
CheckContactTimeConfigured_FailsClosed(start, end, day, clock) ==
    LET start_time == FromIsoFormat(start)
        end_time   == FromIsoFormat(end)
    IN  IF Weekday(day) \in prohibited_days
        THEN [check_name |-> "contact_time", passed |-> FALSE,
              details |-> "Contact not allowed on Sundays",
              severity |-> "warning", logged |-> "none"]
        ELSE IF ~start_time.ok \/ ~end_time.ok
        THEN [check_name |-> "contact_time", passed |-> FALSE,
              details |-> "Contact hours are not configured",
              severity |-> "warning", logged |-> "error"]
        ELSE IF ~(NotBefore(clock, start_time.minutes)
                     /\ NotAfter(clock, end_time.minutes))
        THEN [check_name |-> "contact_time", passed |-> FALSE,
              details |-> "Contact only allowed between " \o start
                              \o " and " \o end,
              severity |-> "warning", logged |-> "none"]
        ELSE [check_name |-> "contact_time", passed |-> TRUE,
              details |-> "Contact time is within allowed hours",
              severity |-> "info", logged |-> "none"]

\* _check_contact_time with the configured texts of contact_hours_start and
\* contact_hours_end: the weekday test comes first; a ValueError of either
\* parse is logged with logger.error and the check passes.
CheckContactTimeConfigured(start, end, day, clock) ==
    LET start_time == FromIsoFormat(start)
        end_time   == FromIsoFormat(end)
    IN  IF Weekday(day) \in prohibited_days
        THEN [check_name |-> "contact_time", passed |-> FALSE,
              details |-> "Contact not allowed on Sundays",
              severity |-> "warning", logged |-> "none"]
        ELSE IF ~start_time.ok \/ ~end_time.ok
        THEN [check_name |-> "contact_time", passed |-> TRUE,
              details |-> "Contact time is within allowed hours",
              severity |-> "info", logged |-> "error"]
        ELSE IF ~(NotBefore(clock, start_time.minutes)
                     /\ NotAfter(clock, end_time.minutes))
        THEN [check_name |-> "contact_time", passed |-> FALSE,
              details |-> "Contact only allowed between " \o start
                              \o " and " \o end,
              severity |-> "warning", logged |-> "none"]
        ELSE [check_name |-> "contact_time", passed |-> TRUE,
              details |-> "Contact time is within allowed hours",
              severity |-> "info", logged |-> "none"]

\* Conversation rows of the borrower created today, as the session sees them.
DailyConversations(hist, view) == hist.today + Cardinality(DOMAIN view)

\* Conversation rows of the borrower created in the trailing seven days.
WeeklyConversations(hist, view) == hist.week + hist.today + Cardinality(DOMAIN view)

\* Variant of the daily frequency check that blocks only above the limit.
CheckDailyContactFrequency_OffByOne(hist, view) ==
    IF DailyConversations(hist, view) > max_daily_contact_attempts
    THEN [check_name |-> "daily_contact_frequency", passed |-> FALSE,
          details |-> "Maximum daily contact attempts (3) exceeded",
          severity |-> "warning"]
    ELSE [check_name |-> "daily_contact_frequency", passed |-> TRUE,
          details |-> "Daily contact attempts within limit", severity |-> "info"]

CheckDailyContactFrequency(hist, view) ==
    IF DailyConversations(hist, view) >= max_daily_contact_attempts
    THEN [check_name |-> "daily_contact_frequency", passed |-> FALSE,
          details |-> "Maximum daily contact attempts (3) exceeded",
          severity |-> "warning"]
    ELSE [check_name |-> "daily_contact_frequency", passed |-> TRUE,
          details |-> "Daily contact attempts within limit", severity |-> "info"]

CheckWeeklyContactFrequency(hist, view) ==
    IF WeeklyConversations(hist, view) >= max_weekly_contact_attempts
    THEN [check_name |-> "weekly_contact_frequency", passed |-> FALSE,
          details |-> "Maximum weekly contact attempts (7) exceeded",
          severity |-> "warning"]
    ELSE [check_name |-> "weekly_contact_frequency", passed |-> TRUE,
          details |-> "Weekly contact attempts within limit", severity |-> "info"]

\* Variant of check_contact_compliance that runs the daily frequency check
\* before the contact time check.
CheckContactCompliance_FrequencyFirst(b, day, clock, hist, view) ==
    LET optOut == CheckOptOutStatus(b)
        time   == CheckContactTime(day, clock)
        daily  == CheckDailyContactFrequency(hist, view)
        weekly == CheckWeeklyContactFrequency(hist, view)
    IN  IF ~optOut.passed
        THEN [allowed |-> FALSE,
              reason |-> "Borrower has opted out of communications",
              checks |-> <<optOut>>]
        ELSE IF ~daily.passed
        THEN [allowed |-> FALSE, reason |-> daily.details,
              checks |-> <<optOut, daily>>]
        ELSE IF ~time.passed
        THEN [allowed |-> FALSE, reason |-> time.details,
              checks |-> <<optOut, daily, time>>]
        ELSE IF ~weekly.passed
        THEN [allowed |-> FALSE, reason |-> weekly.details,
              checks |-> <<optOut, daily, time, weekly>>]
        ELSE [allowed |-> TRUE, reason |-> NoReason,
              checks |-> <<optOut, daily, time, weekly>>]

\* check_contact_compliance: the checks run in order and the first failing one
\* returns; checks is the list of the checks evaluated so far.
CheckContactCompliance(b, day, clock, hist, view) ==
    LET optOut == CheckOptOutStatus(b)
        time   == CheckContactTime(day, clock)
        daily  == CheckDailyContactFrequency(hist, view)
        weekly == CheckWeeklyContactFrequency(hist, view)
    IN  IF ~optOut.passed
        THEN [allowed |-> FALSE,
              reason |-> "Borrower has opted out of communications",
              checks |-> <<optOut>>]
        ELSE IF ~time.passed
        THEN [allowed |-> FALSE, reason |-> time.details,
              checks |-> <<optOut, time>>]
        ELSE IF ~daily.passed
        THEN [allowed |-> FALSE, reason |-> daily.details,
              checks |-> <<optOut, time, daily>>]
        ELSE IF ~weekly.passed
        THEN [allowed |-> FALSE, reason |-> weekly.details,
              checks |-> <<optOut, time, daily, weekly>>]
        ELSE [allowed |-> TRUE, reason |-> NoReason,
              checks |-> <<optOut, time, daily, weekly>>]

\* _log_compliance_check: the audit events written for a list of checks, one
\* for every check that did not pass.
LogComplianceCheck(checks) ==
    LET Failed(check) == ~check.passed
        failed == SelectSeq(checks, Failed)
    IN  [i \in 1..Len(failed) |->
            [event_type |-> "compliance_violation", check_name |-> failed[i].check_name,
             details |-> failed[i].details, severity |-> failed[i].severity]]

\* The audit events of one run of check_contact_compliance: the blocked
\* returns come before the call of _log_compliance_check.
GateAuditEvents(gate) ==
    IF gate.allowed THEN LogComplianceCheck(gate.checks) ELSE <<>>

----------------------------------------------------------------------------
(* ConversationService.verify_identity *)

tolerance_cents == 1

SSNInputs == {Absent, "1234", "9999"}
AmountInputs == {Absent, "300.00", "300.01", "300.02", "abc", "nan"}
VerificationData == [last_four_ssn : SSNInputs, last_payment_amount : AmountInputs]

\* float(s) on the inputs of the model: a number (in cents), nan, or ValueError.
ParseFloat(s) ==
    CASE s = "300.00" -> [kind |-> "number", cents |-> 30000]
      [] s = "300.01" -> [kind |-> "number", cents |-> 30001]
      [] s = "300.02" -> [kind |-> "number", cents |-> 30002]
      [] s = "nan"    -> [kind |-> "nan", cents |-> 0]
      [] OTHER        -> [kind |-> "ValueError", cents |-> 0]

\* The last-payment check sets verification_passed to False: on ValueError, or
\* when abs(provided - recorded) > 0.01.  Every comparison with nan is False.
AmountRejected(s, recorded) ==
    LET p == ParseFloat(s)
    IN  CASE p.kind = "ValueError" -> TRUE
          [] p.kind = "nan"        -> FALSE
          [] OTHER                 -> Abs(p.cents - recorded) > tolerance_cents

VerificationPassed(data, ln) ==
    /\ (data.last_four_ssn # Absent => data.last_four_ssn = StoredSSN)
    /\ (data.last_payment_amount # Absent =>
            ~AmountRejected(data.last_payment_amount, ln.last_payment_amount))

\* Variants of the guard of line 411: a strict comparison, and no guard.
AttemptsExhausted_OffByOne(conv) ==
    conv.verification_attempts > max_verification_attempts

AttemptsExhausted_Never(conv) == FALSE

AttemptsExhausted(conv) == conv.verification_attempts >= max_verification_attempts

\* Variant of _escalate_conversation that records the reason and the date but
\* leaves the state as it is.
EscalateConversation_KeepsState(conv, reason) ==
    [conv EXCEPT !.escalation_reason = reason, !.escalation_date_set = TRUE]

\* _escalate_conversation
EscalateConversation(conv, reason) ==
    [conv EXCEPT !.state = "escalated", !.escalation_reason = reason,
                 !.escalation_date_set = TRUE]

\* Variant of the increment that leaves the counter as it is.
NextAttempts_Unchanged(conv) == conv.verification_attempts

\* conversation.verification_attempts += 1
NextAttempts(conv) == conv.verification_attempts + 1

VerifyIdentity(c, data) ==
    /\ UNCHANGED <<today, history, borrower, loan, msgs, plans, everOptedOut>>
    /\ IF c \notin DOMAIN convs
       THEN /\ result' = [NoResult EXCEPT !.op = "verify_identity", !.conv = c,
                                          !.status = "error",
                                          !.reason = "Conversation not found"]
            /\ UNCHANGED <<convs, failStreak>>
       ELSE IF AttemptsExhausted(convs[c])
       THEN /\ convs' = [convs EXCEPT ![c] =
                   EscalateConversation(@, "Maximum verification attempts exceeded")]
            /\ failStreak' = [failStreak EXCEPT ![c] =
                   Min(@ + 1, max_verification_attempts)]
            /\ result' = [NoResult EXCEPT !.op = "verify_identity", !.conv = c,
                                          !.status = "locked", !.verified = FALSE,
                                          !.attempts_remaining = 0]
       ELSE LET attempts == NextAttempts(convs[c])
            IN  IF VerificationPassed(data, loan)
                THEN /\ convs' = [convs EXCEPT ![c] =
                            [@ EXCEPT !.verification_attempts = attempts,
                                      !.identity_verified = TRUE,
                                      !.state = "active_negotiation"]]
                     /\ failStreak' = [failStreak EXCEPT ![c] = 0]
                     /\ result' = [NoResult EXCEPT
                            !.op = "verify_identity", !.conv = c,
                            !.status = "verified", !.verified = TRUE,
                            !.attempts_remaining = max_verification_attempts - attempts]
                ELSE /\ convs' = [convs EXCEPT ![c] =
                            [@ EXCEPT !.verification_attempts = attempts]]
                     /\ failStreak' = [failStreak EXCEPT ![c] =
                            Min(@ + 1, max_verification_attempts)]
                     /\ result' = [NoResult EXCEPT
                            !.op = "verify_identity", !.conv = c,
                            !.status = "failed", !.verified = FALSE,
                            !.attempts_remaining = max_verification_attempts - attempts]

----------------------------------------------------------------------------
(* ConversationService.escalate_to_human *)

EscalationReasons == {"Borrower asked for an agent"}

EscalateToHuman(c, reason) ==
    /\ UNCHANGED <<today, history, borrower, loan, msgs, plans, failStreak,
                   everOptedOut>>
    /\ IF c \notin DOMAIN convs
       THEN /\ result' = [NoResult EXCEPT !.op = "escalate_to_human", !.conv = c,
                                          !.status = "error",
                                          !.reason = "Conversation not found"]
            /\ UNCHANGED convs
       ELSE /\ convs' = [convs EXCEPT ![c] = EscalateConversation(@, reason)]
            /\ result' = [NoResult EXCEPT !.op = "escalate_to_human", !.conv = c,
                                          !.status = "escalated"]

----------------------------------------------------------------------------
(* ComplianceService.handle_opt_out_request, handle_debt_validation_request *)

\* The conversations of the borrower the opt-out query selects.
OptOutSelected(conv) == conv.state \notin {"closed", "opted_out"}

HandleOptOutRequest(b) ==
    /\ UNCHANGED <<today, history, loan, msgs, plans, failStreak>>
    /\ IF b # KnownBorrower
       THEN /\ result' = [NoResult EXCEPT !.op = "handle_opt_out_request",
                                          !.status = "error",
                                          !.reason = "Borrower not found"]
            /\ UNCHANGED <<borrower, convs, everOptedOut>>
       ELSE /\ borrower' = [borrower EXCEPT !.opt_out_date_set = TRUE]
            /\ everOptedOut' = everOptedOut
                   \cup {c \in DOMAIN convs : OptOutSelected(convs[c])}
            /\ convs' = [c \in DOMAIN convs |->
                   IF OptOutSelected(convs[c])
                   THEN [convs[c] EXCEPT !.state = "opted_out"]
                   ELSE convs[c]]
            /\ result' = [NoResult EXCEPT !.op = "handle_opt_out_request",
                                          !.status = "opted_out"]

\* The conversations the debt-validation query selects.
DebtValidationSelected(conv, b, l) ==
    b = KnownBorrower /\ l = KnownLoan /\ conv.state = "active_negotiation"

HandleDebtValidationRequest(b, l) ==
    /\ UNCHANGED <<today, history, borrower, loan, msgs, plans, failStreak,
                   everOptedOut>>
    /\ convs' = [c \in DOMAIN convs |->
           IF DebtValidationSelected(convs[c], b, l)
           THEN EscalateConversation(convs[c], "Debt validation requested")
           ELSE convs[c]]
    /\ result' = [NoResult EXCEPT !.op = "handle_debt_validation_request",
                                  !.status = "validation_requested"]

----------------------------------------------------------------------------
(* Message texts: a text is the sequence of its characters *)

UpperToLower ==
    ("A" :> "a") @@ ("B" :> "b") @@ ("C" :> "c") @@ ("D" :> "d") @@
    ("E" :> "e") @@ ("F" :> "f") @@ ("G" :> "g") @@ ("H" :> "h") @@
    ("I" :> "i") @@ ("J" :> "j") @@ ("K" :> "k") @@ ("L" :> "l") @@
    ("M" :> "m") @@ ("N" :> "n") @@ ("O" :> "o") @@ ("P" :> "p") @@
    ("Q" :> "q") @@ ("R" :> "r") @@ ("S" :> "s") @@ ("T" :> "t") @@
    ("U" :> "u") @@ ("V" :> "v") @@ ("W" :> "w") @@ ("X" :> "x") @@
    ("Y" :> "y") @@ ("Z" :> "z")

\* str.lower()
Lower(text) ==
    [i \in 1..Len(text) |->
        IF text[i] \in DOMAIN UpperToLower THEN UpperToLower[text[i]] ELSE text[i]]

\* needle in text
Contains(text, needle) ==
    \E i \in 1..(Len(text) - Len(needle) + 1) :
        SubSeq(text, i, i + Len(needle) - 1) = needle

MsgThanks == <<"T", "h", "a", "n", "k", " ", "y", "o", "u">>
MsgBalance == <<"Y", "o", "u", "r", " ", "B", "a", "l", "a", "n", "c", "e">>
MsgDollar == <<"P", "a", "y", " ", "$", "5">>
MsgSue == <<"W", "e", " ", "S", "U", "E">>
MsgLawsuit == <<"A", " ", "L", "a", "w", "s", "u", "i", "t">>

MsgHandoff ==
    <<"I", " ", "n", "e", "e", "d", " ", "t", "o", " ", "c", "o", "n", "n",
      "e", "c", "t", " ", "y", "o", "u", " ", "w", "i", "t", "h", " ", "a",
      " ", "s", "p", "e", "c", "i", "a", "l", "i", "s", "t", " ", "w", "h",
      "o", " ", "c", "a", "n", " ", "b", "e", "t", "t", "e", "r", " ", "a",
      "s", "s", "i", "s", "t", " ", "w", "i", "t", "h", " ", "y", "o", "u",
      "r", " ", "r", "e", "q", "u", "e", "s", "t", ".", " ", "T", "h", "e",
      "y", " ", "w", "i", "l", "l", " ", "c", "o", "n", "t", "a", "c", "t",
      " ", "y", "o", "u", " ", "s", "h", "o", "r", "t", "l", "y", ".">>

MsgFallback ==
    <<"I", "'", "m", " ", "e", "x", "p", "e", "r", "i", "e", "n", "c", "i",
      "n", "g", " ", "t", "e", "c", "h", "n", "i", "c", "a", "l", " ", "d",
      "i", "f", "f", "i", "c", "u", "l", "t", "i", "e", "s", " ", "a", "n",
      "d", " ", "w", "a", "n", "t", " ", "t", "o", " ", "e", "n", "s", "u",
      "r", "e", " ", "y", "o", "u", " ", "r", "e", "c", "e", "i", "v", "e",
      " ", "t", "h", "e", " ", "b", "e", "s", "t", " ", "s", "e", "r", "v",
      "i", "c", "e", ".", " ", "L", "e", "t", " ", "m", "e", " ", "c", "o",
      "n", "n", "e", "c", "t", " ", "y", "o", "u", " ", "w", "i", "t", "h",
      " ", "a", " ", "s", "p", "e", "c", "i", "a", "l", "i", "s", "t", " ",
      "w", "h", "o", " ", "c", "a", "n", " ", "a", "s", "s", "i", "s", "t",
      " ", "y", "o", "u", " ", "i", "m", "m", "e", "d", "i", "a", "t", "e",
      "l", "y", ".">>

Messages == {MsgThanks, MsgBalance, MsgDollar, MsgSue, MsgLawsuit}

W_balance == <<"b", "a", "l", "a", "n", "c", "e">>
W_dollar == <<"$">>

prohibited_words ==
    <<<<"t", "h", "r", "e", "a", "t", "e", "n">>,
      <<"s", "u", "e">>,
      <<"a", "r", "r", "e", "s", "t">>,
      <<"j", "a", "i", "l">>,
      <<"g", "a", "r", "n", "i", "s", "h">>,
      <<"s", "e", "i", "z", "e">>>>

\* prohibited_phrases of ComplianceService.check_message_compliance
prohibited_phrases ==
    prohibited_words \o
    <<<<"r", "u", "i", "n", " ", "c", "r", "e", "d", "i", "t">>,
      <<"l", "e", "g", "a", "l", " ", "a", "c", "t", "i", "o", "n">>,
      <<"c", "o", "u", "r", "t">>,
      <<"l", "a", "w", "s", "u", "i", "t">>>>

----------------------------------------------------------------------------
(* Proposals of the generator (AssistantResponse, StructuredPlan) *)

NoDate == [y |-> 0, m |-> 0, d |-> 0]

\* structured_plan = None
NoPlan ==
    [type |-> "none", amount |-> 0, installments |-> 0,
     first_due_date |-> NoDate, frequency |-> "monthly"]

\* installments = 0 stands for installments = None: the code tests it for truth.
SettlementOver ==
    [type |-> "settlement", amount |-> 140000, installments |-> 0,
     first_due_date |-> [y |-> 2025, m |-> 11, d |-> 5], frequency |-> "monthly"]

InstallmentSix ==
    [type |-> "installment", amount |-> 20000, installments |-> 6,
     first_due_date |-> [y |-> 2025, m |-> 11, d |-> 10], frequency |-> "monthly"]

InstallmentSmall ==
    [type |-> "installment", amount |-> 2000, installments |-> 6,
     first_due_date |-> NoDate, frequency |-> "weekly"]

InstallmentEndOfMonth ==
    [type |-> "installment", amount |-> 20000, installments |-> 2,
     first_due_date |-> [y |-> 2026, m |-> 1, d |-> 31], frequency |-> "monthly"]

InstallmentLong ==
    [type |-> "installment", amount |-> 5000, installments |-> 13,
     first_due_date |-> [y |-> 2025, m |-> 11, d |-> 10], frequency |-> "weekly"]

\* Both installment limits met exactly.
InstallmentAtLimits ==
    [type |-> "installment", amount |-> 2500, installments |-> 12,
     first_due_date |-> [y |-> 2025, m |-> 11, d |-> 10], frequency |-> "monthly"]

PlanInputs ==
    {SettlementOver, InstallmentSix, InstallmentSmall, InstallmentEndOfMonth,
     InstallmentLong, InstallmentAtLimits}

\* Plans of every kind for the plan builder: settlements within and over the
\* limit, one-time payments with a positive, zero and negative amount.
SettlementHalf ==
    [type |-> "settlement", amount |-> 60000, installments |-> 0,
     first_due_date |-> [y |-> 2025, m |-> 11, d |-> 5], frequency |-> "monthly"]

OneTimeFull ==
    [type |-> "one_time", amount |-> 120000, installments |-> 0,
     first_due_date |-> [y |-> 2025, m |-> 11, d |-> 5], frequency |-> "monthly"]

OneTimeZero == [OneTimeFull EXCEPT !.amount = 0]

OneTimeNegative == [OneTimeFull EXCEPT !.amount = 0 - 5000]

\* Installment plans of two and three payments from the last days of
\* January 2026 and of December 2025, at every frequency.
Frequencies == {"weekly", "bi-weekly", "monthly"}
LastDays == {28, 29, 30, 31}

InstallmentsFrom ==
    {[type |-> "installment", amount |-> 10000, installments |-> n,
      first_due_date |-> [y |-> ym[1], m |-> ym[2], d |-> d], frequency |-> f] :
        n \in {2, 3}, ym \in {<<2026, 1>>, <<2025, 12>>}, d \in LastDays,
        f \in Frequencies}

BuilderPlanInputs ==
    PlanInputs
    \cup {SettlementHalf, OneTimeFull, OneTimeZero, OneTimeNegative}
    \cup InstallmentsFrom

\* _parse_llm_response: the AssistantResponse parsed from the generator's
\* output; metadata keeps the raw output, here the fields it was parsed into.
\* confidence is in hundredths; the proposals of the model all carry 0.9.
Proposal(action, text, plan, escalation) ==
    [action |-> action, message_to_user |-> text, structured_plan |-> plan,
     confidence |-> 90, escalation |-> escalation, compliance_checks |-> <<>>,
     metadata |-> [raw_response |->
                      [action |-> action, message_to_user |-> text,
                       structured_plan |-> plan, escalation |-> escalation]]]

\* Every action with and without the escalation flag; every message and every
\* plan without the flag; one prohibited message with the flag already set.
Proposals ==
    {Proposal(a, MsgThanks, NoPlan, e) : a \in ActionTypes, e \in BOOLEAN}
    \cup
    {Proposal(a, t, NoPlan, FALSE) : a \in {"inform", "acknowledge"}, t \in Messages}
    \cup
    {Proposal("propose_plan", MsgThanks, p, FALSE) : p \in PlanInputs}
    \cup
    {Proposal("inform", MsgSue, NoPlan, TRUE)}

----------------------------------------------------------------------------
(* LLMService: the response validator *)

\* Variant of _validate_payment_plan without the installment limits.
ValidatePaymentPlan_NoInstallmentLimits(plan) ==
    IF plan.type = "settlement" /\ plan.amount <= 0
    THEN <<"Settlement amount must be positive">> ELSE <<>>

\* _validate_payment_plan: the list of errors of a structured plan.
ValidatePaymentPlan(plan) ==
    (IF plan.type = "settlement" /\ plan.amount <= 0
     THEN <<"Settlement amount must be positive">> ELSE <<>>)
    \o
    (IF plan.type = "installment"
        /\ plan.installments # 0 /\ plan.installments > max_installment_months
     THEN <<"Installment plan exceeds maximum 12 months">> ELSE <<>>)
    \o
    (IF plan.type = "installment" /\ plan.amount < minimum_installment_cents
     THEN <<"Minimum payment amount is $25">> ELSE <<>>)

\* Amounts are floats in the code and cents in the model: the float of an
\* amount of n cents is the double nearest to n / 100.  The operators below
\* compute with doubles exactly, on naturals written as sequences of digits,
\* least significant first.
Base == 2 ^ 15

RECURSIVE BigOfInt(_)
BigOfInt(n) == IF n = 0 THEN <<>> ELSE <<n % Base>> \o BigOfInt(n \div Base)

RECURSIVE BigMulSmall(_, _, _)
BigMulSmall(a, k, carry) ==
    IF a = <<>> THEN BigOfInt(carry)
    ELSE LET t == Head(a) * k + carry
         IN  <<t % Base>> \o BigMulSmall(Tail(a), k, t \div Base)

RECURSIVE BigAdd(_, _, _)
BigAdd(a, b, carry) ==
    IF a = <<>> /\ b = <<>> THEN BigOfInt(carry)
    ELSE LET x == IF a = <<>> THEN 0 ELSE Head(a)
             y == IF b = <<>> THEN 0 ELSE Head(b)
             t == x + y + carry
         IN  <<t % Base>> \o BigAdd(IF a = <<>> THEN a ELSE Tail(a),
                                    IF b = <<>> THEN b ELSE Tail(b),
                                    t \div Base)

RECURSIVE BigMul(_, _)
BigMul(a, b) ==
    IF b = <<>> THEN <<>>
    ELSE BigAdd(BigMulSmall(a, Head(b), 0), <<0>> \o BigMul(a, Tail(b)), 0)

\* -1, 0 or 1 as a is below, equal to or above b.
RECURSIVE BigCmp(_, _)
BigCmp(a, b) ==
    IF a = <<>> /\ b = <<>> THEN 0
    ELSE LET x == IF a = <<>> THEN 0 ELSE Head(a)
             y == IF b = <<>> THEN 0 ELSE Head(b)
             high == BigCmp(IF a = <<>> THEN a ELSE Tail(a),
                            IF b = <<>> THEN b ELSE Tail(b))
         IN  IF high # 0 THEN high
             ELSE IF x < y THEN 0 - 1 ELSE IF x > y THEN 1 ELSE 0

BigPow2(k) == [i \in 1..(k \div 15) |-> 0] \o <<2 ^ (k % 15)>>

\* Quotient and remainder of a by a small divisor.
RECURSIVE BigDivSmall(_, _)
BigDivSmall(a, d) ==
    IF a = <<>> THEN [q |-> <<>>, r |-> 0]
    ELSE LET high == BigDivSmall(Tail(a), d)
             t == high.r * Base + Head(a)
         IN  [q |-> <<t \div d>> \o high.q, r |-> t % d]

\* Round q * 2^e, with sticky telling that bits below q were dropped, to the
\* nearest double, ties to even: [m, e] with m below 2^53 or equal to it.
RECURSIVE RoundToDouble(_, _, _)
RoundToDouble(q, sticky, e) ==
    LET half == BigDivSmall(q, 2)
    IN  IF BigCmp(q, BigPow2(54)) >= 0
        THEN RoundToDouble(half.q, sticky \/ half.r = 1, e + 1)
        ELSE LET odd == BigDivSmall(half.q, 2).r = 1
                 up  == half.r = 1 /\ (sticky \/ odd)
             IN  [m |-> IF up THEN BigAdd(half.q, <<1>>, 0) ELSE half.q,
                  e |-> e + 1]

\* The double of an amount of n cents, n > 0: float("n/100").
DoubleOfCents(n) ==
    LET scaled == BigDivSmall(BigMul(BigOfInt(n), BigPow2(70)), 100)
    IN  RoundToDouble(scaled.q, scaled.r # 0, 0 - 70)

\* settlement_amount / loan_balance > self.max_settlement_percentage, in
\* doubles: the rounded quotient is above the double of 0.70 exactly when
\* the quotient is above the midpoint of that double and the next one.
SettlementPercentageExceeds(settlement_amount, loan_balance) ==
    IF settlement_amount <= 0 THEN FALSE
    ELSE LET x == DoubleOfCents(settlement_amount)
             y == DoubleOfCents(loan_balance)
             limit == DoubleOfCents(max_settlement_percent)
             midpoint == BigAdd(BigMulSmall(limit.m, 2, 0), <<1>>, 0)
             right == BigMul(midpoint, y.m)
             d == x.e - (limit.e - 1 + y.e)
         IN  IF d >= 0
             THEN BigCmp(BigMul(x.m, BigPow2(d)), right) > 0
             ELSE BigCmp(x.m, BigMul(right, BigPow2(0 - d))) > 0

\* installments > self.max_installment_months raises TypeError when the plan
\* carries installments = None.
ValidatePaymentPlanRaises(plan_data) ==
    plan_data.type = "installment" /\ plan_data.installments = 0

\* Variant of validate_payment_plan that compares the settlement with the
\* balance whatever the balance is.
validate_payment_plan_NoBalanceGuard(plan_data, loan_balance) ==
    (IF plan_data.type = "settlement"
     THEN <<[check_name |-> "settlement_percentage",
             passed |-> ~(IF loan_balance > 0
                          THEN SettlementPercentageExceeds(plan_data.amount,
                                                           loan_balance)
                          ELSE plan_data.amount * 100
                                   > max_settlement_percent * loan_balance)]>>
     ELSE <<>>)
    \o
    (IF plan_data.type = "installment"
     THEN <<[check_name |-> "installment_duration",
             passed |-> ~(plan_data.installments > max_installment_months)],
            [check_name |-> "minimum_payment",
             passed |-> ~(plan_data.amount < minimum_installment_cents)]>>
     ELSE <<>>)

\* ComplianceService.validate_payment_plan: the checks of a plan against the
\* balance of the loan, passed or failed.  The turn does not call it.
validate_payment_plan(plan_data, loan_balance) ==
    (IF plan_data.type = "settlement"
     THEN <<[check_name |-> "settlement_percentage",
             passed |-> ~(/\ loan_balance > 0
                          /\ SettlementPercentageExceeds(plan_data.amount,
                                                         loan_balance))]>>
     ELSE <<>>)
    \o
    (IF plan_data.type = "installment"
     THEN <<[check_name |-> "installment_duration",
             passed |-> ~(plan_data.installments > max_installment_months)],
            [check_name |-> "minimum_payment",
             passed |-> ~(plan_data.amount < minimum_installment_cents)]>>
     ELSE <<>>)

\* _check_compliance: the list of errors of the message.
CheckCompliance(response, identity_verified) ==
    (IF /\ ~identity_verified
        /\ response.action \in {"inform", "collect_payment", "propose_plan"}
        /\ \/ Contains(Lower(response.message_to_user), W_balance)
           \/ Contains(response.message_to_user, W_dollar)
     THEN <<"Cannot share account details without identity verification">>
     ELSE <<>>)
    \o
    SelectSeq(prohibited_words,
              LAMBDA w : Contains(Lower(response.message_to_user), w))

\* Variant of _validate_response that forces the escalation and leaves the
\* proposal's message and plan in place.
ValidateResponse_KeepsContent(response, identity_verified) ==
    LET plan_errors == IF response.structured_plan # NoPlan
                       THEN ValidatePaymentPlan(response.structured_plan)
                       ELSE <<>>
        validation_errors == plan_errors \o CheckCompliance(response, identity_verified)
    IN  IF validation_errors # <<>> /\ ~response.escalation
        THEN [response EXCEPT !.action = "escalate", !.escalation = TRUE,
                              !.compliance_checks = Append(@, "validation_failed")]
        ELSE response

\* _validate_response
ValidateResponse(response, identity_verified) ==
    LET plan_errors == IF response.structured_plan # NoPlan
                       THEN ValidatePaymentPlan(response.structured_plan)
                       ELSE <<>>
        validation_errors == plan_errors \o CheckCompliance(response, identity_verified)
    IN  IF validation_errors # <<>> /\ ~response.escalation
        THEN [action |-> "escalate", message_to_user |-> MsgHandoff,
              structured_plan |-> NoPlan, confidence |-> response.confidence,
              escalation |-> TRUE,
              compliance_checks |->
                  Append(response.compliance_checks, "validation_failed"),
              metadata |-> response.metadata]
        ELSE response

\* Variant of _get_fallback_response that does not set the escalation flag.
FallbackResponse_NoEscalation ==
    [action |-> "escalate", message_to_user |-> MsgFallback,
     structured_plan |-> NoPlan, confidence |-> 100, escalation |-> FALSE,
     compliance_checks |-> <<"technical_failure_escalation">>,
     metadata |-> [fallback_reason |-> "llm_processing_error"]]

\* _get_fallback_response
FallbackResponse ==
    [action |-> "escalate", message_to_user |-> MsgFallback,
     structured_plan |-> NoPlan, confidence |-> 100, escalation |-> TRUE,
     compliance_checks |-> <<"technical_failure_escalation">>,
     metadata |-> [fallback_reason |-> "llm_processing_error"]]

\* What makes process_conversation take its except branch: the call raises
\* (an error of the service, or its timeout), or the output cannot be parsed.
GeneratorFailures == {"call_error", "timeout", "unparsable_output"}

\* process_conversation: the generator's output, validated, or the fallback
\* when the call or the parsing of its output fails.
GenerationsOf(proposals) ==
    {[ok |-> FALSE, failure |-> f, proposal |-> FallbackResponse] :
         f \in GeneratorFailures}
    \cup {[ok |-> TRUE, failure |-> "none", proposal |-> p] : p \in proposals}

ProcessConversation(gen, identity_verified) ==
    IF gen.ok THEN ValidateResponse(gen.proposal, identity_verified)
    ELSE FallbackResponse

----------------------------------------------------------------------------
(* ConversationService: payment plans and their schedules *)

\* The date the loop of _create_scheduled_payments moves to after a row:
\* datetime.replace raises ValueError when the day is not in the next month.
NextDueDate(dt, frequency) ==
    IF frequency = "weekly" THEN [ok |-> TRUE, date |-> AddDays(dt, 7)]
    ELSE IF frequency = "bi-weekly" THEN [ok |-> TRUE, date |-> AddDays(dt, 14)]
    ELSE IF dt.m = 12 THEN [ok |-> TRUE, date |-> [y |-> dt.y + 1, m |-> 1, d |-> dt.d]]
    ELSE IF dt.d <= DaysInMonth(dt.y, dt.m + 1)
         THEN [ok |-> TRUE, date |-> [dt EXCEPT !.m = dt.m + 1]]
         ELSE [ok |-> FALSE, date |-> dt]

\* _create_scheduled_payments: rows i..n from current_date on; the date is
\* advanced after every row, the last one included.
RECURSIVE ScheduledPayments(_, _, _, _, _)
ScheduledPayments(current_date, i, n, frequency, amount) ==
    IF i > n THEN [ok |-> TRUE, rows |-> <<>>]
    ELSE LET row  == [installment_number |-> i, due_date |-> current_date,
                      amount |-> amount, status |-> "pending"]
             next == NextDueDate(current_date, frequency)
         IN  IF ~next.ok THEN [ok |-> FALSE, rows |-> <<>>]
             ELSE LET rest == ScheduledPayments(next.date, i + 1, n, frequency, amount)
                  IN  [ok |-> rest.ok,
                       rows |-> IF rest.ok THEN <<row>> \o rest.rows ELSE <<>>]

PlanTypeMap(type) ==
    CASE type = "installment" -> "installment"
      [] type = "settlement"  -> "settlement"
      [] type = "one_time"    -> "full_payment"

\* _create_payment_plan: the PaymentPlan row with its schedule, or the failure
\* of the schedule.
CreatePaymentPlan(c, plan, day) ==
    LET n     == IF plan.installments # 0 THEN plan.installments ELSE 1
        first == IF plan.first_due_date # NoDate THEN plan.first_due_date
                 ELSE AddDays(day, 7)
        sched == IF plan.type = "installment" /\ plan.installments # 0
                 THEN ScheduledPayments(first, 1, n, plan.frequency, plan.amount)
                 ELSE [ok |-> TRUE, rows |-> <<>>]
    IN  [ok  |-> sched.ok,
         row |-> [conversation_id |-> c, plan_type |-> PlanTypeMap(plan.type),
                  total_amount |-> plan.amount, installment_amount |-> plan.amount,
                  number_of_installments |-> n, first_payment_date |-> first,
                  payment_frequency |-> plan.frequency, status |-> "proposed",
                  scheduled_payments |-> sched.rows]]

----------------------------------------------------------------------------
(* ConversationService.process_message *)

\* 07:59:59.999999, 08:00:00, 21:00:00 and 21:00:00.000001.
Clocks == {Within(479), Exactly(480), Exactly(1260), Within(1260)}

\* The query of _get_or_create_conversation: the conversation of this loan and
\* session that is neither closed nor opted out.
FindsConversation(c, l) ==
    c \in DOMAIN convs /\ l = KnownLoan /\ convs[c].state \notin {"closed", "opted_out"}

\* Variant of _update_conversation_state that does not move the
\* conversation on collect_payment.
UpdateConversationState_NoCollect(conv, response) ==
    IF response.escalation THEN [conv EXCEPT !.state = "escalated"]
    ELSE IF response.action = "verify_identity"
         THEN [conv EXCEPT !.state = "identity_verification"]
    ELSE IF response.action = "propose_plan"
         THEN [conv EXCEPT !.state = "active_negotiation"]
    ELSE IF response.action = "close" THEN [conv EXCEPT !.state = "closed"]
    ELSE conv

\* _update_conversation_state
UpdateConversationState(conv, response) ==
    IF response.escalation THEN [conv EXCEPT !.state = "escalated"]
    ELSE IF response.action = "verify_identity"
         THEN [conv EXCEPT !.state = "identity_verification"]
    ELSE IF response.action \in {"propose_plan", "collect_payment"}
         THEN [conv EXCEPT !.state = "active_negotiation"]
    ELSE IF response.action = "close" THEN [conv EXCEPT !.state = "closed"]
    ELSE conv

\* _handle_assistant_action, the part that changes the conversation.
HandleEscalation(conv, response) ==
    IF response.escalation
    THEN EscalateConversation(conv, "LLM requested escalation")
    ELSE conv

\* _create_compliance_blocked_response: the AssistantResponse of a blocked
\* turn; the message is a text, the fixed prefix followed by the reason.
ComplianceBlockedResponse(reason) ==
    [NoResponse EXCEPT
        !.action = "close",
        !.message_to_user = "Contact not allowed at this time: " \o reason,
        !.confidence = 100,
        !.escalation = FALSE,
        !.compliance_checks = <<"contact_time_restriction">>]

\* What process_message returns: the ConversationResponse of a blocked turn
\* carries the blocked response; a failed turn raises and carries none.
TurnResult(c, status, reason) ==
    LET raised == [NoResult EXCEPT !.op = "process_message", !.conv = c,
                                   !.status = status, !.reason = reason]
    IN  IF status = "blocked"
        THEN [raised EXCEPT !.action = "close",
                            !.assistant = ComplianceBlockedResponse(reason)]
        ELSE raised

\* Variant of the failure without the rollback: the conversation row the
\* turn flushed and the user message it added are kept.
TurnFails_NoRollback(c, reason) ==
    /\ result' = TurnResult(c, "error", reason)
    /\ convs' = IF c \in DOMAIN convs THEN convs ELSE (c :> NewConversation) @@ convs
    /\ msgs' = [msgs EXCEPT ![c] = Append(@, "user")]
    /\ UNCHANGED plans

\* Variant of the failure that has opened the conversation before the loan
\* is looked up: a request naming an unknown loan leaves a conversation row.
TurnFails_KeepsConversation(c, reason) ==
    /\ result' = TurnResult(c, "error", reason)
    /\ convs' = IF c \in DOMAIN convs THEN convs ELSE (c :> NewConversation) @@ convs
    /\ UNCHANGED <<msgs, plans>>

\* The request fails: the session is rolled back and the error is raised.
TurnFails(c, reason) ==
    /\ result' = TurnResult(c, "error", reason)
    /\ UNCHANGED <<convs, msgs, plans>>

\* The request's session is closed without a commit (get_db of
\* app.models.database): what the request added or changed is discarded.
CloseSession == UNCHANGED <<convs, msgs, plans>>

\* Variant of the blocked return that commits the session first: the
\* conversation row _get_or_create_conversation flushed is kept.
TurnBlocked_Commits(c, reason) ==
    /\ result' = TurnResult(c, "blocked", reason)
    /\ convs' = IF c \in DOMAIN convs THEN convs ELSE (c :> NewConversation) @@ convs
    /\ UNCHANGED <<msgs, plans>>

\* The gate blocks the contact: the blocked response is returned before
\* anything is committed.
TurnBlocked(c, reason) ==
    /\ result' = TurnResult(c, "blocked", reason)
    /\ CloseSession

\* The turn after the gate allowed it, on the session's view of the rows.
TurnCompletes(c, view, gen) ==
    LET response == ProcessConversation(gen, view[c].identity_verified)
        created  == CreatePaymentPlan(c, response.structured_plan, today)
        conv     == UpdateConversationState(HandleEscalation(view[c], response),
                                            response)
    IN  /\ Len(msgs[c]) < 2 * MaxTurns
        /\ IF response.structured_plan = NoPlan
           THEN /\ plans' = plans
                /\ convs' = [view EXCEPT ![c] = conv]
                /\ msgs' = [msgs EXCEPT ![c] = @ \o <<"user", "assistant">>]
                /\ result' = [TurnResult(c, "ok", NoReason) EXCEPT
                                  !.action = response.action,
                                  !.escalation = response.escalation,
                                  !.assistant = response]
           ELSE IF ~created.ok
           THEN TurnFails(c, "ValueError: day is out of range for month")
           ELSE /\ Len(plans) < MaxPlans
                /\ plans' = Append(plans, created.row)
                /\ convs' = [view EXCEPT ![c] = conv]
                /\ msgs' = [msgs EXCEPT ![c] = @ \o <<"user", "assistant">>]
                /\ result' = [TurnResult(c, "ok", NoReason) EXCEPT
                                  !.action = response.action,
                                  !.escalation = response.escalation,
                                  !.assistant = response]

\* The rows the session sees once _get_or_create_conversation has returned:
\* a conversation it did not find is added and flushed.
SessionView(c, l) ==
    IF FindsConversation(c, l) THEN convs ELSE (c :> NewConversation) @@ convs

ProcessMessage(c, l, gens) ==
    /\ UNCHANGED <<today, history, borrower, loan, failStreak, everOptedOut>>
    /\ IF ~FindsConversation(c, l) /\ l # KnownLoan
       THEN TurnFails(c, "Loan not found")
       ELSE IF ~FindsConversation(c, l) /\ c \in DOMAIN convs
       THEN TurnFails(c, "IntegrityError: conversation_id is not unique")
       ELSE LET view == SessionView(c, l)
            IN  \/ \E clock \in Clocks :
                       LET gate == CheckContactCompliance(borrower, today, clock,
                                                          history, view)
                       IN  ~gate.allowed /\ TurnBlocked(c, gate.reason)
                \/ /\ \E clock \in Clocks :
                          CheckContactCompliance(borrower, today, clock,
                                                 history, view).allowed
                   /\ \E gen \in gens : TurnCompletes(c, view, gen)

\* The turn passes the gate and every step of it, and db.commit() raises: the
\* except branch of process_message rolls the session back and raises.
ProcessMessageCommitFails(c, l) ==
    /\ UNCHANGED <<today, history, borrower, loan, failStreak, everOptedOut>>
    /\ l = KnownLoan
    /\ FindsConversation(c, l) \/ c \notin DOMAIN convs
    /\ \E clock \in Clocks :
           CheckContactCompliance(borrower, today, clock, history,
                                  SessionView(c, l)).allowed
    /\ TurnFails(c, "SQLAlchemyError: commit failed")

----------------------------------------------------------------------------
(* The system *)

Monday == [y |-> 2025, m |-> 11, d |-> 3]
Sunday == [y |-> 2025, m |-> 11, d |-> 2]

\* create_sample_transactions: the Transaction rows of loan 1, its last
\* payment and a late payment fee.
SeedTransactions ==
    <<[loan_id |-> KnownLoan, amount |-> 30000, transaction_type |-> "payment"],
      [loan_id |-> KnownLoan, amount |-> 2500, transaction_type |-> "fee"]>>

\* The rows of borrower 1 and loan 1 after the seed; the seed's other three
\* borrowers and loans take no part.
InitRows ==
    /\ borrower = [opt_out_date_set |-> FALSE]
    /\ loan = [current_balance |-> 120000, last_payment_amount |-> 30000]
    /\ convs = <<>>
    /\ msgs = [c \in ConvIds |-> <<>>]
    /\ plans = <<>>
    /\ result = NoResult
    /\ failStreak = [c \in ConvIds |-> 0]
    /\ everOptedOut = {}
    /\ transactions = SeedTransactions
    /\ inflight = <<>>

\* The request is served on its own, with no other request in flight, and
\* takes no payment.
Alone == UNCHANGED <<transactions, inflight>>

\* One session of a borrower with no earlier conversation, every request and
\* every proposal of the generator.
Init ==
    /\ today \in {Monday, Sunday}
    /\ history = [today |-> 0, week |-> 0]
    /\ InitRows

Next ==
    \/ \E c \in Sessions, l \in {KnownLoan, UnknownLoan} :
           ProcessMessage(c, l, GenerationsOf(Proposals)) /\ Alone
    \/ \E c \in Sessions, data \in VerificationData :
           VerifyIdentity(c, data) /\ Alone
    \/ \E c \in Sessions, reason \in EscalationReasons :
           EscalateToHuman(c, reason) /\ Alone
    \/ \E b \in {KnownBorrower, UnknownBorrower} : HandleOptOutRequest(b) /\ Alone
    \/ \E b \in {KnownBorrower, UnknownBorrower}, l \in {KnownLoan, UnknownLoan} :
           HandleDebtValidationRequest(b, l) /\ Alone

Spec == Init /\ [][Next]_vars

\* Two sessions of a borrower with any number of earlier conversations, on
\* a weekday or a Sunday: the turns with one plain proposal, and the opt-out.
GateProposals == {Proposal("inform", MsgThanks, NoPlan, FALSE)}

InitGate ==
    /\ today \in {Monday, Sunday}
    /\ history \in [today : 0..MaxPriorToday, week : 0..MaxPriorWeek]
    /\ InitRows

NextGate ==
    \/ \E c \in ConvIds :
           ProcessMessage(c, KnownLoan, GenerationsOf(GateProposals)) /\ Alone
    \/ \E c \in ConvIds : EscalateToHuman(c, "Borrower asked for an agent") /\ Alone
    \/ HandleOptOutRequest(KnownBorrower) /\ Alone

SpecGate == InitGate /\ [][NextGate]_vars

\* One session of a borrower with no earlier conversation, on a weekday: the
\* turns whose proposal carries a plan, plans of every kind, and the turns
\* whose commit fails.
BuilderProposals ==
    {Proposal("propose_plan", MsgThanks, p, FALSE) : p \in BuilderPlanInputs}
    \cup {Proposal("propose_plan", MsgThanks, p, TRUE) :
              p \in {SettlementHalf, InstallmentLong}}

InitBuilder ==
    /\ today = Monday
    /\ history = [today |-> 0, week |-> 0]
    /\ InitRows

NextBuilder ==
    \/ \E c \in Sessions :
           ProcessMessage(c, KnownLoan, GenerationsOf(BuilderProposals)) /\ Alone
    \/ \E c \in Sessions : ProcessMessageCommitFails(c, KnownLoan) /\ Alone

SpecBuilder == InitBuilder /\ [][NextBuilder]_vars

\* The contact time check on its own: every day of a week, clock times around
\* the window, and configuration texts that parse or do not.
WeekDays == {AddDays(Sunday, n) : n \in 0..6}
WindowClocks ==
    {Exactly(0), Within(479), Exactly(480), Within(720), Exactly(1260),
     Within(1260), Exactly(1261), Within(1439)}

CheckWindow(start, end, clock) ==
    /\ result' = [op |-> "check_contact_time", start |-> start, end |-> end,
                  clock |-> clock,
                  check |-> CheckContactTimeConfigured(start, end, today, clock)]
    /\ UNCHANGED <<today, history, borrower, loan, convs, msgs, plans,
                   failStreak, everOptedOut>>

InitWindow ==
    /\ today \in WeekDays
    /\ history = [today |-> 0, week |-> 0]
    /\ InitRows

NextWindow ==
    \E start \in WindowTexts, end \in WindowTexts, clock \in WindowClocks :
        CheckWindow(start, end, clock) /\ Alone

SpecWindow == InitWindow /\ [][NextWindow]_vars

\* validate_payment_plan on its own: plans of every kind, settlements around
\* the limit, against balances that are negative, zero and positive.  840.07
\* on 1200.10 and 2.10 on 3.00 are 70% exactly, with a float quotient above
\* 0.70; 840.00 on 1200.00 is 70% exactly, with a float quotient equal to it.
SettlementAmounts == {0 - 5000, 0, 1, 210, 60000, 84000, 84001, 84007, 140000}
SettlementInputs == {[SettlementHalf EXCEPT !.amount = a] : a \in SettlementAmounts}
InstallmentUnset == [InstallmentSix EXCEPT !.installments = 0]
LoanBalances == {0 - 5000, 0, 1, 300, 120000, 120010, 200000}

ValidatePlan(plan_data, loan_balance) ==
    /\ result' = IF ValidatePaymentPlanRaises(plan_data)
                 THEN [op |-> "validate_payment_plan", plan_data |-> plan_data,
                       loan_balance |-> loan_balance, status |-> "TypeError",
                       checks |-> <<>>]
                 ELSE [op |-> "validate_payment_plan", plan_data |-> plan_data,
                       loan_balance |-> loan_balance, status |-> "ok",
                       checks |-> validate_payment_plan(plan_data, loan_balance)]
    /\ UNCHANGED <<today, history, borrower, loan, convs, msgs, plans,
                   failStreak, everOptedOut>>

InitValidate ==
    /\ today = Monday
    /\ history = [today |-> 0, week |-> 0]
    /\ InitRows

NextValidate ==
    \E plan_data \in BuilderPlanInputs \cup SettlementInputs \cup {InstallmentUnset},
       loan_balance \in LoanBalances :
        ValidatePlan(plan_data, loan_balance) /\ Alone

SpecValidate == InitValidate /\ [][NextValidate]_vars

----------------------------------------------------------------------------
(* ConversationService.process_payment *)

MaxPayments == 3

\* PaymentRequest.amount is any float; the amounts are in cents.
PaymentAmounts == {0 - 5000, 0, 30000, 120000, 130000}

\* process_payment: an unknown loan raises; otherwise the transaction is
\* added, the balance reduced by the amount and the last payment set, and
\* the session committed.
ProcessPayment(l, amount) ==
    /\ Len(transactions) < Len(SeedTransactions) + MaxPayments
    /\ IF l # KnownLoan
       THEN /\ result' = [NoResult EXCEPT !.op = "process_payment",
                                           !.status = "error",
                                           !.reason = "Loan not found"]
            /\ UNCHANGED <<loan, transactions>>
       ELSE /\ transactions' = Append(transactions,
                                      [loan_id |-> l, amount |-> amount,
                                       transaction_type |-> "payment"])
            /\ loan' = [loan EXCEPT !.current_balance = @ - amount,
                                    !.last_payment_amount = amount]
            /\ result' = [NoResult EXCEPT !.op = "process_payment",
                                           !.status = "completed"]
    /\ UNCHANGED <<today, history, borrower, convs, msgs, plans, failStreak,
                   everOptedOut, inflight>>

InitPayments ==
    /\ today = Monday
    /\ history = [today |-> 0, week |-> 0]
    /\ InitRows

NextPayments ==
    \E l \in {KnownLoan, UnknownLoan}, amount \in PaymentAmounts :
        ProcessPayment(l, amount)

SpecPayments == InitPayments /\ [][NextPayments]_vars

----------------------------------------------------------------------------
(* The server: requests on the event loop (app.main, run.py) *)

\* run.py starts one uvicorn process; the endpoints are coroutines of its one
\* event loop.  A handler runs from its first statement to its return without
\* suspending: every await in it is on a coroutine that never waits, and the
\* generator is called with the synchronous self.llm.invoke, which keeps the
\* loop's thread until it returns.
RequestIds == {"r1", "r2", "r3", "r4"}

NoData == [last_four_ssn |-> Absent, last_payment_amount |-> Absent]

LoopRequests ==
    {[kind |-> "process_message", conv |-> c, data |-> NoData] : c \in ConvIds}
    \cup {[kind |-> "verify_identity", conv |-> "s1", data |-> d] :
              d \in {[NoData EXCEPT !.last_four_ssn = StoredSSN],
                     [NoData EXCEPT !.last_four_ssn = "9999"]}}

\* The request is accepted: its coroutine is scheduled on the loop.
Accept(r, req) ==
    /\ r \notin DOMAIN inflight
    /\ inflight' = (r :> [request |-> req, phase |-> "accepted",
                          seen |-> <<>>, outcome |-> "none"]) @@ inflight
    /\ UNCHANGED <<today, history, borrower, loan, convs, msgs, plans, result,
                   failStreak, everOptedOut, transactions>>

\* Variant of the loop whose generator call is awaited: the loop is free for
\* other handlers while a turn waits for the generator.
LoopFree_AwaitsGenerator == TRUE

\* No handler holds the loop's thread in the generator call.
LoopFree == \A r \in DOMAIN inflight : inflight[r].phase # "in_generator"

\* The turn of the request reaches the generator call.
ReachesGenerator(c) ==
    /\ FindsConversation(c, KnownLoan) \/ c \notin DOMAIN convs
    /\ Len(msgs[c]) < 2 * MaxTurns
    /\ \E clock \in Clocks :
           CheckContactCompliance(borrower, today, clock, history,
                                  SessionView(c, KnownLoan)).allowed

\* process_message up to the generator call: the handler has read the rows
\* and is inside self.llm.invoke.
EnterGenerator(r) ==
    /\ r \in DOMAIN inflight
    /\ inflight[r].phase = "accepted"
    /\ inflight[r].request.kind = "process_message"
    /\ LoopFree
    /\ ReachesGenerator(inflight[r].request.conv)
    /\ inflight' = [inflight EXCEPT ![r].phase = "in_generator",
                                    ![r].seen = <<convs, msgs, plans>>]
    /\ UNCHANGED <<today, history, borrower, loan, convs, msgs, plans, result,
                   failStreak, everOptedOut, transactions>>

\* process_message from the generator's return to the commit and the answer.
LeaveGenerator(r) ==
    /\ r \in DOMAIN inflight
    /\ inflight[r].phase = "in_generator"
    /\ ProcessMessage(inflight[r].request.conv, KnownLoan,
                      GenerationsOf(GateProposals))
    /\ result'.status = "ok"
    /\ inflight' = [inflight EXCEPT ![r].phase = "answered",
                                    ![r].outcome = result'.status]
    /\ UNCHANGED transactions

\* process_message answered before the generator is called: the gate blocked
\* the contact, or the conversation row could not be created.
AnswerBeforeGenerator(r) ==
    /\ r \in DOMAIN inflight
    /\ inflight[r].phase = "accepted"
    /\ inflight[r].request.kind = "process_message"
    /\ LoopFree
    /\ ProcessMessage(inflight[r].request.conv, KnownLoan,
                      GenerationsOf(GateProposals))
    /\ result'.status \in {"blocked", "error"}
    /\ inflight' = [inflight EXCEPT ![r].phase = "answered",
                                    ![r].outcome = result'.status]
    /\ UNCHANGED transactions

\* verify_identity: the handler has no call that waits.
AnswerVerify(r) ==
    /\ r \in DOMAIN inflight
    /\ inflight[r].phase = "accepted"
    /\ inflight[r].request.kind = "verify_identity"
    /\ LoopFree
    /\ VerifyIdentity(inflight[r].request.conv, inflight[r].request.data)
    /\ inflight' = [inflight EXCEPT ![r].phase = "answered",
                                    ![r].outcome = result'.status]
    /\ UNCHANGED transactions

InitLoop ==
    /\ today = Monday
    /\ history = [today |-> 0, week |-> 0]
    /\ InitRows

NextLoop ==
    \/ \E r \in RequestIds, req \in LoopRequests : Accept(r, req)
    \/ \E r \in RequestIds : EnterGenerator(r)
    \/ \E r \in RequestIds : LeaveGenerator(r)
    \/ \E r \in RequestIds : AnswerBeforeGenerator(r)
    \/ \E r \in RequestIds : AnswerVerify(r)

SpecLoop == InitLoop /\ [][NextLoop]_vars

----------------------------------------------------------------------------
(* Claims *)

TerminalStates == {"escalated", "closed", "opted_out"}

\* The step is a verify_identity call on conversation c.
VerifyStepOn(c) == result'.op = "verify_identity" /\ result'.conv = c

\* C1: Escalated, Closed and OptedOut are terminal: no request changes the
\* state of a conversation that is in one of them.
C1_TerminalStatesAreFinal ==
    [][\A c \in DOMAIN convs :
          convs[c].state \in TerminalStates => convs'[c].state = convs[c].state]_vars

\* C2: a conversation that an opt-out request has marked opted out is never
\* in active negotiation afterwards.
C2_OptedOutNeverNegotiates ==
    \A c \in everOptedOut : convs[c].state # "active_negotiation"

\* C3: while the borrower's opt_out_date is set the contact compliance gate
\* blocks, at every clock time and for every session, whatever the day and
\* the numbers of earlier conversations are, and no turn goes through.
C3_OptedOutBorrowerIsBlocked ==
    borrower.opt_out_date_set =>
        /\ \A clock \in Clocks, c \in ConvIds :
               LET gate == CheckContactCompliance(borrower, today, clock, history,
                                                  SessionView(c, KnownLoan))
               IN  /\ ~gate.allowed
                   /\ gate.reason = "Borrower has opted out of communications"
        /\ result.op = "process_message" =>
               /\ result.status \in {"blocked", "error"}
               /\ result.status = "blocked" =>
                      result.reason = "Borrower has opted out of communications"

C3_Witness ==
    /\ borrower.opt_out_date_set
    /\ result.op = "process_message"
    /\ result.status = "blocked"
    /\ Weekday(today) \notin prohibited_days
    /\ history.today = 0 /\ history.week = 0

\* C4: the verification_attempts counter of a conversation never exceeds
\* max_verification_attempts.
C4_AttemptsWithinMaximum ==
    \A c \in DOMAIN convs :
        convs[c].verification_attempts <= max_verification_attempts

C4_Witness ==
    \E c \in DOMAIN convs :
        /\ convs[c].verification_attempts = max_verification_attempts
        /\ result.op = "verify_identity"
        /\ result.status = "locked"

\* C5: once max_verification_attempts verify_identity calls in a row have
\* not verified a conversation, no verify_identity call on it returns
\* verified = true.
C5_LockoutIsPermanent ==
    [][\A c \in ConvIds :
          failStreak[c] >= max_verification_attempts /\ VerifyStepOn(c)
              => ~result'.verified /\ result'.status # "verified"]_vars

C5_Witness ==
    \E c \in DOMAIN convs :
        /\ failStreak[c] = max_verification_attempts
        /\ result.op = "verify_identity" /\ result.conv = c
        /\ result.status = "locked"
        /\ ~convs[c].identity_verified

\* C6: the verify_identity call that follows max_verification_attempts
\* failures in a row returns verified = false with attempts_remaining = 0,
\* and leaves the conversation Escalated.
C6_CallAfterLimitIsLocked ==
    [][\A c \in ConvIds :
          failStreak[c] = max_verification_attempts /\ VerifyStepOn(c)
              => /\ result'.status = "locked"
                 /\ ~result'.verified
                 /\ result'.attempts_remaining = 0
                 /\ convs'[c].state = "escalated"]_vars

C6_Witness ==
    \E c \in DOMAIN convs :
        /\ result.op = "verify_identity" /\ result.conv = c
        /\ result.status = "locked" /\ result.attempts_remaining = 0
        /\ convs[c].state = "escalated"
        /\ convs[c].escalation_reason = "Maximum verification attempts exceeded"

\* C7: the failed verify_identity call that brings the counter to
\* max_verification_attempts, with no success, returns attempts_remaining = 0
\* and leaves the conversation Escalated.
C7_ReachingLimitEscalates ==
    \A c \in DOMAIN convs :
        /\ result.op = "verify_identity" /\ result.conv = c
        /\ ~result.verified
        /\ convs[c].verification_attempts = max_verification_attempts
        /\ ~convs[c].identity_verified
        => /\ result.attempts_remaining = 0
           /\ convs[c].state = "escalated"

\* C8 as stated: every verify_identity call on an existing conversation adds
\* one to its verification_attempts, the calls that return Locked included.
C8_EveryCallIncrements ==
    [][\A c \in DOMAIN convs :
          VerifyStepOn(c) =>
              convs'[c].verification_attempts = convs[c].verification_attempts + 1]_vars

\* C8 as amended: a verify_identity call made while the counter is below
\* max_verification_attempts adds exactly one to it, on success and on
\* failure; a call that returns Locked leaves the counter as it is.
C8_IncrementUnlessLocked ==
    [][\A c \in DOMAIN convs :
          VerifyStepOn(c) =>
              /\ convs[c].verification_attempts < max_verification_attempts
                 => /\ result'.status \in {"verified", "failed"}
                    /\ convs'[c].verification_attempts
                           = convs[c].verification_attempts + 1
              /\ convs[c].verification_attempts >= max_verification_attempts
                 => /\ result'.status = "locked"
                    /\ convs'[c].verification_attempts
                           = convs[c].verification_attempts]_vars

C8_Witness ==
    \E c \in DOMAIN convs :
        /\ result.op = "verify_identity" /\ result.conv = c
        /\ result.status = "verified"
        /\ convs[c].verification_attempts = 2
        /\ failStreak[c] = 0

\* The facts of the input that are present match the stored ones: the
\* identifier is equal, the amount is a number within one cent.
FactsMatch(data, ln) ==
    /\ data.last_four_ssn # Absent => data.last_four_ssn = StoredSSN
    /\ data.last_payment_amount # Absent =>
           LET p == ParseFloat(data.last_payment_amount)
           IN  /\ p.kind = "number"
               /\ Abs(p.cents - ln.last_payment_amount) <= tolerance_cents

\* C9: a verify_identity call made while the counter is below the maximum
\* returns verified = true exactly when every fact present in the input
\* matches; on success the conversation is verified and in active negotiation.
C9_VerifiedIffFactsMatch ==
    [][\A c \in DOMAIN convs, data \in VerificationData :
          ~AttemptsExhausted(convs[c]) /\ VerifyIdentity(c, data)
              => /\ result'.verified <=> FactsMatch(data, loan)
                 /\ result'.verified =>
                        /\ convs'[c].identity_verified
                        /\ convs'[c].state = "active_negotiation"]_vars

\* The settlement of the plan is above max_settlement_percentage of the balance.
SettlementOverLimit(plan, ln) ==
    /\ plan.type = "settlement"
    /\ ln.current_balance > 0
    /\ plan.amount * 100 > max_settlement_percent * ln.current_balance

\* C10: a turn whose generated proposal carries a settlement above 70% of
\* the loan's balance ends with action = escalate and the conversation
\* Escalated.
C10_SettlementOverLimitEscalates ==
    [][\A c \in Sessions, p \in Proposals :
          /\ SettlementOverLimit(p.structured_plan, loan)
          /\ ProcessMessage(c, KnownLoan, {[ok |-> TRUE, proposal |-> p]})
          /\ result'.status = "ok"
          => /\ ValidateResponse(p, SessionView(c, KnownLoan)[c].identity_verified).action
                    = "escalate"
             /\ result'.action = "escalate"
             /\ convs'[c].state = "escalated"]_vars

\* The step is a completed turn of session c on the generator's proposal p.
TurnOn(c, p) ==
    /\ ProcessMessage(c, KnownLoan, {[ok |-> TRUE, proposal |-> p]})
    /\ result'.status = "ok"

\* The step is a completed turn of session c on a proposal of the generator:
\* the response it returns carries the generator's output in its metadata.
GeneratedTurn(c) ==
    /\ result'.op = "process_message" /\ result'.conv = c
    /\ result'.status = "ok"
    /\ "raw_response" \in DOMAIN result'.assistant.metadata

\* The proposal the turn of this step was given.
TurnProposal ==
    LET raw == result'.assistant.metadata.raw_response
    IN  Proposal(raw.action, raw.message_to_user, raw.structured_plan,
                 raw.escalation)

\* identity_verified of the conversation context the validator is given.
ContextVerified(c) == SessionView(c, KnownLoan)[c].identity_verified

\* The violations the validator collects on a proposal.
ValidationErrors(p, identity_verified) ==
    (IF p.structured_plan # NoPlan THEN ValidatePaymentPlan(p.structured_plan)
     ELSE <<>>)
    \o CheckCompliance(p, identity_verified)

\* C11: a proposal with at least one violation and escalation = false comes
\* out of the validator as action escalate, escalation true, the hand-off
\* message, no plan and the tag validation_failed appended; a proposal with
\* no violation comes out unchanged.
C11_ViolationIsReplaced ==
    [][\A c \in Sessions :
          GeneratedTurn(c) =>
              LET p      == TurnProposal
                  errors == ValidationErrors(p, ContextVerified(c))
                  out    == result'.assistant
              IN  /\ errors # <<>> /\ ~p.escalation =>
                        /\ out.action = "escalate"
                        /\ out.escalation
                        /\ out.message_to_user = MsgHandoff
                        /\ out.structured_plan = NoPlan
                        /\ out.compliance_checks
                               = Append(p.compliance_checks, "validation_failed")
                        /\ out.metadata = p.metadata
                        /\ plans' = plans
                  /\ errors = <<>> => out = p]_vars

C11_Witness ==
    /\ result.op = "process_message" /\ result.status = "ok"
    /\ result.assistant.action = "escalate"
    /\ result.assistant.message_to_user = MsgHandoff
    /\ result.assistant.compliance_checks = <<"validation_failed">>
    /\ result.assistant.structured_plan = NoPlan
    /\ plans = <<>>

\* The message contains, whatever the case of its letters, a phrase of the
\* prohibited-phrase list.
HasProhibitedPhrase(text) ==
    \E i \in 1..Len(prohibited_phrases) : Contains(Lower(text), prohibited_phrases[i])

\* C12: a proposal with escalation = false whose message contains a phrase
\* of the prohibited-phrase list ("lawsuit" among them) comes out of the
\* validator with action escalate and the validation failure recorded.
C12_ProhibitedPhraseEscalates ==
    [][\A c \in Sessions, p \in Proposals :
          /\ HasProhibitedPhrase(p.message_to_user)
          /\ ~p.escalation
          /\ TurnOn(c, p)
          => /\ result'.assistant.action = "escalate"
             /\ result'.assistant.escalation
             /\ convs'[c].state = "escalated"]_vars

W_amount == <<"a", "m", "o", "u", "n", "t">>

\* The message mentions the balance, an amount or a currency sign.
MentionsAccountDetails(text) ==
    \/ Contains(Lower(text), W_balance)
    \/ Contains(Lower(text), W_amount)
    \/ Contains(text, W_dollar)

\* C13: while the conversation is not identity-verified, a proposal of any
\* action kind whose message mentions balance, amount or "$" comes out of
\* the validator with action escalate.
C13_UnverifiedDetailsEscalate ==
    [][\A c \in Sessions, p \in Proposals :
          /\ ~ContextVerified(c)
          /\ MentionsAccountDetails(p.message_to_user)
          /\ ~p.escalation
          /\ TurnOn(c, p)
          => /\ result'.assistant.action = "escalate"
             /\ result'.assistant.escalation
             /\ convs'[c].state = "escalated"]_vars

\* The plan is an installment plan over one of the two installment limits.
InstallmentOverLimit(plan) ==
    \/ plan.installments > max_installment_months
    \/ plan.amount < minimum_installment_cents

\* C14: an installment plan with more than max_installment_months
\* installments or an installment below 25 is reported as a violation
\* (installment_duration, minimum_payment) and its proposal comes out of the
\* validator escalating, as action escalate without the plan when the
\* generator had not set the escalation flag; an installment plan within
\* both limits is no violation and its proposal comes out unchanged.
C14_InstallmentLimits ==
    [][\A c \in Sessions :
          /\ GeneratedTurn(c)
          /\ TurnProposal.structured_plan.type = "installment"
          =>  LET p      == TurnProposal
                  plan   == p.structured_plan
                  checks == validate_payment_plan(plan, loan.current_balance)
                  failed == {i \in 1..Len(checks) : ~checks[i].passed}
              IN  /\ InstallmentOverLimit(plan) <=> ValidatePaymentPlan(plan) # <<>>
                  /\ InstallmentOverLimit(plan) <=> failed # {}
                  /\ plan.installments > max_installment_months
                         <=> \E i \in failed : checks[i].check_name = "installment_duration"
                  /\ plan.amount < minimum_installment_cents
                         <=> \E i \in failed : checks[i].check_name = "minimum_payment"
                  /\ IF InstallmentOverLimit(plan)
                     THEN /\ result'.assistant.escalation
                          /\ convs'[c].state = "escalated"
                          /\ ~p.escalation =>
                                 /\ result'.assistant.action = "escalate"
                                 /\ result'.assistant.structured_plan = NoPlan
                                 /\ plans' = plans
                     ELSE /\ result'.assistant = p
                          /\ Len(plans') = Len(plans) + 1]_vars

C14_Witness ==
    /\ result.op = "process_message" /\ result.status = "ok"
    /\ result.assistant.action = "escalate"
    /\ result.assistant.compliance_checks = <<"validation_failed">>
    /\ result.assistant.metadata.raw_response.structured_plan = InstallmentLong
    /\ ~result.assistant.metadata.raw_response.escalation
    /\ plans = <<>>

\* C15: a completed turn whose validated response has action escalate,
\* chosen by the generator or forced by the validator, leaves the
\* conversation Escalated with an escalation reason and date recorded.
C15_EscalateActionEscalates ==
    /\ result.op = "process_message"
    /\ result.status = "ok"
    /\ result.assistant.action = "escalate"
    => /\ convs[result.conv].state = "escalated"
       /\ convs[result.conv].escalation_reason # NoReason
       /\ convs[result.conv].escalation_date_set

\* C16: a completed turn whose validated response does not escalate sets
\* the state by the action: verify_identity -> identity_verification,
\* propose_plan or collect_payment -> active_negotiation, close -> closed;
\* any other action leaves the state, and every action leaves the other
\* fields of the conversation, as they were.
C16_StateFollowsAction ==
    [][\A c \in Sessions :
          GeneratedTurn(c) /\ ~result'.assistant.escalation =>
              LET before == SessionView(c, KnownLoan)[c]
                  action == result'.assistant.action
              IN  /\ convs'[c].state =
                         CASE action = "verify_identity" -> "identity_verification"
                           [] action \in {"propose_plan", "collect_payment"}
                                  -> "active_negotiation"
                           [] action = "close" -> "closed"
                           [] OTHER -> before.state
                  /\ convs'[c] = [before EXCEPT !.state = convs'[c].state]]_vars

C16_Witness ==
    \E c \in DOMAIN convs :
        /\ result.op = "process_message" /\ result.conv = c
        /\ result.status = "ok"
        /\ ~result.assistant.escalation
        /\ result.assistant.action \in {"inform", "acknowledge", "request_info"}
        /\ convs[c].state = "active_negotiation"
        /\ ~convs[c].identity_verified
        /\ Len(msgs[c]) = 4

\* C17: a turn addressed to a conversation in state opted_out returns the
\* opted-out response, raises no error and changes nothing: no message, no
\* conversation, no plan is added or modified.
C17_OptedOutTurnDoesNothing ==
    [][\A c \in Sessions :
          /\ c \in DOMAIN convs
          /\ convs[c].state = "opted_out"
          /\ ProcessMessage(c, KnownLoan, GenerationsOf(Proposals))
          => /\ result'.status = "opted_out"
             /\ UNCHANGED <<convs, msgs, plans, borrower>>]_vars

\* C18: a turn the contact compliance gate blocks returns the blocked
\* response, not an error, and leaves the rows as they were: no message is
\* recorded, no conversation is added, no conversation is changed.
C18_BlockedTurnChangesNothing ==
    [][result'.op = "process_message" /\ result'.status = "blocked"
          => /\ result'.reason # NoReason
             /\ DOMAIN convs' = DOMAIN convs
             /\ UNCHANGED <<convs, msgs, plans, borrower, loan>>]_vars

C18_Witness ==
    /\ result.op = "process_message"
    /\ result.status = "blocked"
    /\ result.reason = "Maximum daily contact attempts (3) exceeded"
    /\ result.conv \notin DOMAIN convs
    /\ msgs[result.conv] = <<>>
    /\ convs # <<>>

\* The four checks of the gate in the order opt-out, contact window, daily
\* frequency, weekly frequency, each evaluated on its own.
ChecksInOrder(clock, c) ==
    <<CheckOptOutStatus(borrower),
      CheckContactTime(today, clock),
      CheckDailyContactFrequency(history, SessionView(c, KnownLoan)),
      CheckWeeklyContactFrequency(history, SessionView(c, KnownLoan))>>

\* The blocked reasons the gate can give at the clock times of the model.
BlockedReasons(c) ==
    {CheckContactCompliance(borrower, today, clock, history,
                            SessionView(c, KnownLoan)).reason : clock \in Clocks}

\* C19: the gate evaluates opt-out, contact window, daily frequency and
\* weekly frequency in this order and stops at the first check that fails:
\* the checks evaluated are those up to and including it, and the blocked
\* reason is its reason; with no failing check all four are evaluated and
\* the contact is allowed.
C19_GateOrderAndShortCircuit ==
    /\ \A clock \in Clocks, c \in ConvIds :
           LET gate    == CheckContactCompliance(borrower, today, clock, history,
                                                 SessionView(c, KnownLoan))
               order   == ChecksInOrder(clock, c)
               failing == {i \in 1..4 : ~order[i].passed}
           IN  IF failing = {}
               THEN gate.allowed /\ gate.checks = order
               ELSE LET first == CHOOSE i \in failing : \A j \in failing : i <= j
                    IN  /\ ~gate.allowed
                        /\ gate.checks = SubSeq(order, 1, first)
                        /\ gate.reason =
                               IF first = 1
                               THEN "Borrower has opted out of communications"
                               ELSE order[first].details
    /\ result.op = "process_message" /\ result.status = "blocked"
           => result.reason \in BlockedReasons(result.conv)

C19_Witness ==
    /\ result.op = "process_message" /\ result.status = "blocked"
    /\ ~borrower.opt_out_date_set
    /\ Weekday(today) \in prohibited_days
    /\ history.today >= max_daily_contact_attempts
    /\ history.week >= max_weekly_contact_attempts
    /\ result.reason = "Contact not allowed on Sundays"

\* C20: the contact-window check blocks exactly when the weekday is in the
\* prohibited set or the clock is outside the half-open window
\* [contact_hours_start, contact_hours_end): the start is allowed, the end
\* is blocked.
C20_WindowIsHalfOpen ==
    \A clock \in Clocks :
        CheckContactTime(today, clock).passed
            <=> /\ Weekday(today) \notin prohibited_days
                /\ contact_hours_start <= clock.minute
                /\ clock.minute < contact_hours_end

\* The step's result is a contact time check whose window configuration
\* could not be parsed.
UnparsableWindow ==
    /\ result.op = "check_contact_time"
    /\ ~FromIsoFormat(result.start).ok \/ ~FromIsoFormat(result.end).ok

\* C21 as stated: when the contact-hours window configuration cannot be
\* parsed, the contact time check allows contact and logs the failure, and
\* never blocks, on every day and at every clock time.
C21_FailsOpenEveryDay ==
    UnparsableWindow =>
        result.check.passed /\ result.check.logged = "error"

\* C21 amended: when the contact-hours window configuration cannot be
\* parsed, the contact time check allows contact and logs the failure at
\* every clock time of a day that is not a prohibited day; on a prohibited
\* day the check blocks before the configuration is parsed.
C21_FailsOpenOnAllowedDays ==
    UnparsableWindow =>
        IF Weekday(today) \in prohibited_days
        THEN /\ ~result.check.passed
             /\ result.check.details = "Contact not allowed on Sundays"
        ELSE result.check.passed /\ result.check.logged = "error"

C21_Witness ==
    /\ UnparsableWindow
    /\ Weekday(today) \notin prohibited_days
    /\ result.clock.minute > contact_hours_end
    /\ result.check.passed

\* The conversation rows of the borrower the frequency checks of a turn of
\* session c count: the rows stored, and the row of c the turn has opened.
OpenedToday(c) == history.today + Cardinality(DOMAIN convs \cup {c})
OpenedThisWeek(c) == history.week + OpenedToday(c)

\* C22: with the opt-out and contact-window checks passing, the gate blocks
\* when the conversations opened for the debtor today are at least
\* max_daily_contact_attempts, otherwise blocks when those opened in the
\* trailing seven days are at least max_weekly_contact_attempts, and allows
\* when both counts are below their limits; a turn is blocked or let through
\* accordingly.
C22_FrequencyLimits ==
    /\ \A c \in ConvIds, clock \in Clocks :
          LET view == SessionView(c, KnownLoan)
              gate == CheckContactCompliance(borrower, today, clock, history, view)
          IN  CheckOptOutStatus(borrower).passed
                  /\ CheckContactTime(today, clock).passed
              => IF OpenedToday(c) >= max_daily_contact_attempts
                 THEN /\ ~gate.allowed
                      /\ gate.reason = "Maximum daily contact attempts (3) exceeded"
                 ELSE IF OpenedThisWeek(c) >= max_weekly_contact_attempts
                 THEN /\ ~gate.allowed
                      /\ gate.reason = "Maximum weekly contact attempts (7) exceeded"
                 ELSE gate.allowed
    /\ result.op = "process_message" /\ result.status = "ok"
           => /\ OpenedToday(result.conv) < max_daily_contact_attempts
              /\ OpenedThisWeek(result.conv) < max_weekly_contact_attempts
    /\ result.op = "process_message" /\ result.status = "blocked"
              /\ result.reason = "Maximum daily contact attempts (3) exceeded"
           => OpenedToday(result.conv) >= max_daily_contact_attempts
    /\ result.op = "process_message" /\ result.status = "blocked"
              /\ result.reason = "Maximum weekly contact attempts (7) exceeded"
           => /\ OpenedToday(result.conv) < max_daily_contact_attempts
              /\ OpenedThisWeek(result.conv) >= max_weekly_contact_attempts

C22_Witness ==
    /\ result.op = "process_message" /\ result.status = "blocked"
    /\ result.reason = "Maximum weekly contact attempts (7) exceeded"
    /\ OpenedToday(result.conv) = max_daily_contact_attempts - 1
    /\ OpenedThisWeek(result.conv) = max_weekly_contact_attempts

\* C23: no settlement plan whose amount is more than max_settlement_percentage
\* of the loan's current balance is ever created (balance 1200.00, amount
\* 1400.00 is over the limit).
C23_NoSettlementPlanOverLimit ==
    \A i \in 1..Len(plans) :
        plans[i].plan_type = "settlement"
            => plans[i].total_amount * 100
                   <= max_settlement_percent * loan.current_balance

\* C24: no one-time payment plan with an amount of zero or less is ever
\* created by a turn.
C24_NoOneTimePlanWithoutAmount ==
    \A i \in 1..Len(plans) :
        plans[i].plan_type = "full_payment" => plans[i].total_amount > 0

\* C25: every created payment plan has exactly as many scheduled payments
\* as its declared installment count, numbered 1..n, and exactly one for a
\* settlement or a one-time plan.
C25_ScheduleHasDeclaredRows ==
    \A i \in 1..Len(plans) :
        LET rows == plans[i].scheduled_payments
            n    == IF plans[i].plan_type = "installment"
                    THEN plans[i].number_of_installments ELSE 1
        IN  /\ Len(rows) = n
            /\ \A k \in 1..Len(rows) : rows[k].installment_number = k

\* The month of a date, counted from year 0.
MonthIndex(dt) == dt.y * 12 + dt.m

\* The due date b follows the due date a by the step of the frequency.
FollowsByStep(a, b, frequency) ==
    IF frequency = "weekly" THEN b = AddDays(a, 7)
    ELSE IF frequency = "bi-weekly" THEN b = AddDays(a, 14)
    ELSE MonthIndex(b) = MonthIndex(a) + 1

\* C26: for every first due date (days 29, 30 and 31 included) and
\* installment count the schedule generation completes, and the due dates
\* of a schedule advance by the step of the frequency: 7 days, 14 days, or
\* one calendar month with December followed by January of the next year.
C26_ScheduleCompletesAndAdvances ==
    /\ ~(/\ result.op = "process_message" /\ result.status = "error"
         /\ result.reason = "ValueError: day is out of range for month")
    /\ \A i \in 1..Len(plans) :
          LET rows == plans[i].scheduled_payments
          IN  \A k \in 1..(Len(rows) - 1) :
                  FollowsByStep(rows[k].due_date, rows[k + 1].due_date,
                                plans[i].payment_frequency)

\* C27: for every created payment plan, number_of_installments times
\* installment_amount equals total_amount up to the rounding of the
\* installments, a cent each (6 installments of 200.00 give 1200.00).
C27_InstallmentsSumToTotal ==
    \A i \in 1..Len(plans) :
        Abs(plans[i].number_of_installments * plans[i].installment_amount
                - plans[i].total_amount)
            <= plans[i].number_of_installments

\* C28: a turn commits atomically: when a step after the compliance gate
\* fails (the plan creation or the final commit among them) the failure is
\* raised to the caller and nothing of the turn persists: no message, no
\* conversation row or change of its state or escalation fields, no plan
\* and no schedule.
C28_FailedTurnChangesNothing ==
    [][result'.op = "process_message" /\ result'.status = "error"
          => UNCHANGED <<convs, msgs, plans>>]_vars

C28_Witness ==
    /\ result.op = "process_message" /\ result.status = "error"
    /\ result.reason \in {"ValueError: day is out of range for month",
                          "SQLAlchemyError: commit failed"}
    /\ result.conv \notin DOMAIN convs
    /\ msgs[result.conv] = <<>>

\* The turn of the result used the fallback response of a failed generator.
FallbackTurn ==
    /\ result.op = "process_message"
    /\ "fallback_reason" \in DOMAIN result.assistant.metadata

\* C29: when the generator fails the turn does not raise: it completes with
\* the fixed fallback response (action escalate, escalation true, confidence
\* 1.0, the fixed hand-off text, no plan) and the conversation ends the turn
\* escalated; the turns that raise are those whose loan or conversation row
\* or payment schedule failed.
C29_GeneratorFailureFallsBack ==
    /\ FallbackTurn =>
          /\ result.status = "ok"
          /\ result.assistant.action = "escalate"
          /\ result.assistant.escalation
          /\ result.assistant.confidence = 100
          /\ result.assistant.message_to_user = MsgFallback
          /\ result.assistant.structured_plan = NoPlan
          /\ result.conv \in DOMAIN convs
          /\ convs[result.conv].state = "escalated"
          /\ convs[result.conv].escalation_reason = "LLM requested escalation"
    /\ result.op = "process_message" /\ result.status = "error"
          => result.reason \in {"Loan not found",
                                "IntegrityError: conversation_id is not unique",
                                "ValueError: day is out of range for month"}

C29_Witness ==
    /\ FallbackTurn
    /\ result.status = "ok"
    /\ convs[result.conv].state = "escalated"
    /\ Len(msgs[result.conv]) = 2

\* C30: a turn whose generator call times out leaves the conversation in its
\* pre-turn state: the same rows, lifecycle state and escalation fields, and
\* the same message history.
C30_TimeoutLeavesConversation ==
    [][\A c \in Sessions :
          ProcessMessage(c, KnownLoan,
                         {[ok |-> FALSE, failure |-> "timeout",
                           proposal |-> FallbackResponse]})
              => UNCHANGED <<convs, msgs>>]_vars

\* The requests in flight in a phase, of a kind, on a conversation.
RequestsIn(phase, kind, c) ==
    {r \in DOMAIN inflight :
        /\ inflight[r].phase = phase
        /\ inflight[r].request.kind = kind
        /\ inflight[r].request.conv = c}

\* The answered requests of a kind on a conversation whose outcome is one of
\* the given ones.
Answered(kind, c, outcomes) ==
    {r \in RequestsIn("answered", kind, c) : inflight[r].outcome \in outcomes}

\* C31: concurrent requests on one conversation are serialized: a handler
\* that is between reading the rows and its commit finds them as it read
\* them, at most one handler is in that position, and the rows show every
\* answered request once: verification_attempts is the number of answered
\* verify_identity calls that counted (never above the maximum), and the
\* message history has the two messages of every completed turn.
C31_RequestsAreSerialized ==
    /\ Cardinality({r \in DOMAIN inflight : inflight[r].phase = "in_generator"}) <= 1
    /\ \A r \in DOMAIN inflight :
          inflight[r].phase = "in_generator"
              => inflight[r].seen = <<convs, msgs, plans>>
    /\ \A c \in DOMAIN convs :
          /\ convs[c].verification_attempts
                 = Cardinality(Answered("verify_identity", c, {"verified", "failed"}))
          /\ convs[c].verification_attempts <= max_verification_attempts
    /\ \A c \in ConvIds :
          Len(msgs[c]) = 2 * Cardinality(Answered("process_message", c, {"ok"}))

C31_Witness ==
    /\ RequestsIn("in_generator", "process_message", "s1") # {}
    /\ RequestsIn("accepted", "verify_identity", "s1") # {}
    /\ Answered("verify_identity", "s1", {"verified", "failed"}) # {}
    /\ "s1" \in DOMAIN convs

\* C32: turns of different conversations are independent: while the turn of
\* one conversation waits for the generator, an accepted turn of another
\* conversation can go on to its own generator call.
C32_TurnsDoNotStallEachOther ==
    \A r1 \in DOMAIN inflight, r2 \in DOMAIN inflight :
        /\ inflight[r1].phase = "in_generator"
        /\ inflight[r2].phase = "accepted"
        /\ inflight[r2].request.kind = "process_message"
        /\ inflight[r2].request.conv # inflight[r1].request.conv
        /\ ReachesGenerator(inflight[r2].request.conv)
        => ENABLED EnterGenerator(r2)

\* C33: a process_message request naming an unknown loan is rejected with an
\* error and changes no conversation, message or plan.
C33_UnknownLoanChangesNothing ==
    [][result'.op = "process_message" /\ result'.reason = "Loan not found"
           => /\ result'.status = "error"
              /\ UNCHANGED <<convs, msgs, plans, loan, borrower>>]_vars

C33_Witness ==
    /\ result.op = "process_message"
    /\ result.reason = "Loan not found"
    /\ result.status = "error"
    /\ result.conv \notin DOMAIN convs

\* C34: every check the gate evaluates has its outcome in the audit events
\* of the run, for passed and failed checks and on the allowed and the
\* blocked path.
C34_EveryGateCheckIsAudited ==
    \A c \in ConvIds, clock \in Clocks :
        LET gate == CheckContactCompliance(borrower, today, clock, history,
                                           SessionView(c, KnownLoan))
            events == GateAuditEvents(gate)
        IN  \A i \in 1..Len(gate.checks) :
                \E j \in 1..Len(events) :
                    events[j].check_name = gate.checks[i].check_name

\* C35: no payment plan is created in a turn that ends with the conversation
\* escalated.
C35_NoPlanInEscalatedTurn ==
    [][result'.op = "process_message" /\ result'.status = "ok"
         /\ convs'[result'.conv].state = "escalated"
           => plans' = plans]_vars

\* C36: a turn moves a conversation to active_negotiation, or creates a
\* payment plan for it, only when the conversation's identity is verified.
C36_NegotiationNeedsVerifiedIdentity ==
    [][result'.op = "process_message" /\ result'.status = "ok"
         /\ ~convs'[result'.conv].identity_verified
           => /\ plans' = plans
              /\ convs'[result'.conv].state = "active_negotiation"
                    => /\ result'.conv \in DOMAIN convs
                       /\ convs[result'.conv].state = "active_negotiation"]_vars

\* C37: a conversation whose identity is verified is never escalated for
\* having exceeded the verification attempts.
C37_VerifiedIsNeverLockedOut ==
    \A c \in DOMAIN convs :
        convs[c].identity_verified
            => convs[c].escalation_reason # "Maximum verification attempts exceeded"

\* The conversation rows of the borrower stored before the turn: those the
\* turn itself has not opened.
StoredToday == history.today + Cardinality(DOMAIN convs)
StoredThisWeek == history.week + StoredToday

\* C38: the conversation a turn opens is not counted against the daily
\* limit: with fewer than max_daily_contact_attempts conversations stored for
\* today, and the other checks passing, the first turn of a new session is
\* allowed.
C38_OwnConversationIsNotCounted ==
    \A c \in ConvIds, clock \in Clocks :
        LET gate == CheckContactCompliance(borrower, today, clock, history,
                                           SessionView(c, KnownLoan))
        IN  /\ c \notin DOMAIN convs
            /\ CheckOptOutStatus(borrower).passed
            /\ CheckContactTime(today, clock).passed
            /\ StoredThisWeek + 1 < max_weekly_contact_attempts
            /\ StoredToday < max_daily_contact_attempts
            => gate.allowed

\* C39: against a loan balance that is zero or negative, validate_payment_plan
\* takes the ratio of a settlement as 0: whatever the settlement amount, the
\* settlement_percentage check passes and is the only check returned.
C39_SettlementOnNonPositiveBalancePasses ==
    result.op = "validate_payment_plan"
        /\ result.plan_data.type = "settlement"
        /\ result.loan_balance <= 0
    => result.checks = <<[check_name |-> "settlement_percentage", passed |-> TRUE]>>

C39_Witness ==
    /\ result.op = "validate_payment_plan"
    /\ result.plan_data.type = "settlement"
    /\ result.plan_data.amount > 0
    /\ result.loan_balance = 0
    /\ result.checks[1].passed

\* C40: after any sequence of process_payment calls the balance of the loan
\* is not negative, and every payment taken has a positive amount.
C40_BalanceNeverNegative ==
    /\ loan.current_balance >= 0
    /\ \A i \in 1..Len(transactions) : transactions[i].amount > 0

====
